---- MODULE Spec2Model ----
(***************************************************************************)
(* Model of src/register/mstatus.rs: the mstatus CSR snapshot type         *)
(* (Mstatus), its field accessors and setters, and the live-register       *)
(* operations read / set_* / clear_* built on csrrs and csrrc.             *)
(***************************************************************************)
EXTENDS Integers, Sequences, FiniteSets, TLC

VARIABLES
    target,   \* target_arch the crate is compiled for
    reg,      \* the live mstatus register (CSR 0x300)
    snap,     \* the Mstatus value held by the caller: <<>> or <<bits>>
    op,       \* name of the last operation called
    arg,      \* its argument, as a string ("none" when it has none)
    oldReg,   \* reg before the last operation
    oldSnap,  \* snap before the last operation
    ret,      \* outcome of the last operation
    conc      \* the set/clear interleaving scenario (inactive elsewhere)

vars == <<target, reg, snap, op, arg, oldReg, oldSnap, ret, conc>>

\* Width of the modelled machine word: the low WordBits bits of usize.
WordBits == 13

\* The start words of SpecConc and SpecAlias range over the low LowBits bits
\* (the six flags and the two reserved bits between them).
LowBits == 8

Words == 0 .. (2^WordBits - 1)

----------------------------------------------------------------------------
(* usize arithmetic *)

Bit(w, i) == (w \div (2^i)) % 2

Shl(x, n) == (x * (2^n)) % (2^WordBits)

Shr(x, n) == x \div (2^n)

RECURSIVE BitAnd(_, _)
BitAnd(a, b) ==
    IF a = 0 \/ b = 0 THEN 0
    ELSE (a % 2) * (b % 2) + 2 * BitAnd(a \div 2, b \div 2)

RECURSIVE BitOr(_, _)
BitOr(a, b) ==
    IF a = 0 THEN b
    ELSE IF b = 0 THEN a
    ELSE (IF a % 2 = 1 \/ b % 2 = 1 THEN 1 ELSE 0) + 2 * BitOr(a \div 2, b \div 2)

BitNot(a) == (2^WordBits - 1) - a

----------------------------------------------------------------------------
(* enum MPP / enum SPP *)

MPP == {"Machine", "Supervisor", "User"}

SPP == {"Supervisor", "User"}
\* faulty variant of MPP_as_usize: Machine takes the hypervisor level's code
MPP_as_usize_h(v) ==
    CASE v = "Machine" -> 2
      [] v = "Supervisor" -> 1
      [] v = "User" -> 0

\* `val as usize` for MPP
MPP_as_usize(v) ==
    CASE v = "Machine" -> 3
      [] v = "Supervisor" -> 1
      [] v = "User" -> 0

\* `spp as usize` for SPP
SPP_as_usize(v) ==
    CASE v = "Supervisor" -> 1
      [] v = "User" -> 0

----------------------------------------------------------------------------
(* impl Mstatus: accessors over self.bits *)

uie(bits) == BitAnd(bits, Shl(1, 0)) = Shl(1, 0)

\* faulty variant of sie: the user-level bit is tested
sie_bit0(bits) == BitAnd(bits, Shl(1, 0)) = Shl(1, 0)

sie(bits) == BitAnd(bits, Shl(1, 1)) = Shl(1, 1)

mie(bits) == BitAnd(bits, Shl(1, 3)) = Shl(1, 3)

upie(bits) == BitAnd(bits, Shl(1, 4)) = Shl(1, 4)

spie(bits) == BitAnd(bits, Shl(1, 5)) = Shl(1, 5)
\* faulty variant of mpie: the neighbouring reserved bit is tested
mpie_bit6(bits) == BitAnd(bits, Shl(1, 6)) = Shl(1, 6)

mpie(bits) == BitAnd(bits, Shl(1, 7)) = Shl(1, 7)

spp(bits) ==
    IF BitAnd(bits, Shl(1, 8)) = Shl(1, 8) THEN "Supervisor" ELSE "User"
\* faulty variant of mpp: the match ends in a catch-all variant
mpp_default(bits) ==
    LET v == Shr(BitAnd(bits, Shl(3, 11)), 11)
    IN  CASE v = 0 -> "User"
          [] v = 1 -> "Supervisor"
          [] OTHER -> "Machine"

\* "unreachable" stands for the unreachable!() panic
mpp(bits) ==
    LET v == Shr(BitAnd(bits, Shl(3, 11)), 11)
    IN  CASE v = 0 -> "User"
          [] v = 1 -> "Supervisor"
          [] v = 3 -> "Machine"
          [] OTHER -> "unreachable"

xie(bits) == mie(bits)

\* BitField::set_bit(bit, val) on usize
set_bit(bits, bit, val) ==
    IF val THEN BitOr(bits, Shl(1, bit)) ELSE BitAnd(bits, BitNot(Shl(1, bit)))

\* BitField::set_bits(lo..hi, value) on usize
set_bits(bits, lo, hi, value) ==
    BitOr(BitAnd(bits, BitNot((2^hi) - (2^lo))), Shl(value, lo))

Mstatus_set_xpie(bits, val) == set_bit(bits, 7, val)
\* faulty variant of Mstatus_set_xie: the supervisor-level bit is written
Mstatus_set_xie_s(bits, val) == set_bit(bits, 1, val)

Mstatus_set_xie(bits, val) == set_bit(bits, 3, val)

Mstatus_set_mpp(bits, val) == set_bits(bits, 11, 13, MPP_as_usize(val))

----------------------------------------------------------------------------
(* the hardware instructions and the cfg gate *)

Targets == {"riscv32", "riscv64", "x86_64"}

\* cfg(any(target_arch = "riscv32", target_arch = "riscv64"))
IsRiscv == target \in {"riscv32", "riscv64"}
\* faulty variant of csrrs: a plain write (csrrw) in place of the atomic set
csrrw(csr, rs) == rs

\* csrrs rd, 0x300, rs: the CSR becomes csr | rs, in one instruction
csrrs(csr, rs) == BitOr(csr, rs)
\* faulty variant of csrrc: the mask itself is and-ed in, not its complement
csrrc_keep(csr, rs) == BitAnd(csr, rs)

\* csrrc rd, 0x300, rs: the CSR becomes csr & ~rs, in one instruction
csrrc(csr, rs) == BitAnd(csr, BitNot(rs))

Str(b) == IF b THEN "true" ELSE "false"

\* a panic (unimplemented!() or unreachable!()) ends the program
Panicked == ret \in {"unimplemented", "unreachable"}

\* the call record every operation leaves behind
Called(name, a) ==
    /\ op' = name
    /\ arg' = a
    /\ oldReg' = reg
    /\ oldSnap' = snap

\* faulty variant of read_body: a stub that returns a fabricated value
\* where the instruction is missing
read_stub ==
    /\ ~Panicked
    /\ Called("read", "none")
    /\ reg' = reg
    /\ snap' = <<IF IsRiscv THEN reg ELSE 0>>
    /\ ret' = "ok"
    /\ UNCHANGED target

\* fn read() -> Mstatus
read_body ==
    /\ ~Panicked
    /\ Called("read", "none")
    /\ IF IsRiscv
       THEN /\ reg' = csrrs(reg, 0)
            /\ snap' = <<reg>>
            /\ ret' = "ok"
       ELSE /\ ret' = "unimplemented"
            /\ UNCHANGED <<reg, snap>>
    /\ UNCHANGED target

\* faulty variant of set: the Mstatus value is a live view of the register
set_live_view(name, a, bits) ==
    /\ ~Panicked
    /\ Called(name, a)
    /\ IF IsRiscv
       THEN /\ reg' = csrrs(reg, bits)
            /\ snap' = IF snap = <<>> THEN snap ELSE <<csrrs(reg, bits)>>
            /\ ret' = "ok"
       ELSE /\ ret' = "unimplemented"
            /\ UNCHANGED <<reg, snap>>
    /\ UNCHANGED target

\* unsafe fn set(bits)
set(name, a, bits) ==
    /\ ~Panicked
    /\ Called(name, a)
    /\ IF IsRiscv
       THEN /\ reg' = csrrs(reg, bits)
            /\ ret' = "ok"
       ELSE /\ ret' = "unimplemented"
            /\ UNCHANGED reg
    /\ UNCHANGED <<target, snap>>

\* unsafe fn clear(bits)
clear(name, a, bits) ==
    /\ ~Panicked
    /\ Called(name, a)
    /\ IF IsRiscv
       THEN /\ reg' = csrrc(reg, bits)
            /\ ret' = "ok"
       ELSE /\ ret' = "unimplemented"
            /\ UNCHANGED reg
    /\ UNCHANGED <<target, snap>>

\* macro set_csr!($set_field, $e)
set_csr(name, e) == set(name, "none", e)

\* macro clear_csr!($clear_field, $e)
clear_csr(name, e) == clear(name, "none", e)

----------------------------------------------------------------------------
(* the public live-register operations *)

read == read_body /\ UNCHANGED conc

set_uie == set_csr("set_uie", Shl(1, 0)) /\ UNCHANGED conc

clear_uie == clear_csr("clear_uie", Shl(1, 0)) /\ UNCHANGED conc

set_sie == set_csr("set_sie", Shl(1, 1)) /\ UNCHANGED conc

clear_sie == clear_csr("clear_sie", Shl(1, 1)) /\ UNCHANGED conc

set_mie == set_csr("set_mie", Shl(1, 3)) /\ UNCHANGED conc

clear_mie == clear_csr("clear_mie", Shl(1, 3)) /\ UNCHANGED conc

set_xie == set_csr("set_xie", Shl(1, 3)) /\ UNCHANGED conc

clear_xie == clear_csr("clear_xie", Shl(1, 3)) /\ UNCHANGED conc

set_upie == set_csr("set_upie", Shl(1, 4)) /\ UNCHANGED conc

set_spie == set_csr("set_spie", Shl(1, 5)) /\ UNCHANGED conc

set_mpie == set_csr("set_mpie", Shl(1, 7)) /\ UNCHANGED conc

set_xpie == set_csr("set_xpie", Shl(1, 7)) /\ UNCHANGED conc

set_spp ==
    \E v \in SPP :
        set("set_spp", v, Shl(SPP_as_usize(v), 8)) /\ UNCHANGED conc

set_mpp ==
    \E v \in MPP :
        set("set_mpp", v, Shl(MPP_as_usize(v), 11)) /\ UNCHANGED conc

----------------------------------------------------------------------------
(* calls on the Mstatus value the caller holds *)

\* a &self accessor: the value is left alone, the result is returned
Accessor(name, result) ==
    /\ ~Panicked
    /\ snap # <<>>
    /\ Called(name, "none")
    /\ ret' = result
    /\ UNCHANGED <<target, reg, snap, conc>>

\* a &mut self setter: self.bits is overwritten with the new word
Setter(name, a, bits) ==
    /\ ~Panicked
    /\ snap # <<>>
    /\ Called(name, a)
    /\ snap' = <<bits>>
    /\ ret' = "ok"
    /\ UNCHANGED <<target, reg, conc>>

call_uie == Accessor("uie", Str(uie(snap[1])))

call_sie == Accessor("sie", Str(sie(snap[1])))

call_mie == Accessor("mie", Str(mie(snap[1])))

call_upie == Accessor("upie", Str(upie(snap[1])))

call_spie == Accessor("spie", Str(spie(snap[1])))

call_mpie == Accessor("mpie", Str(mpie(snap[1])))

call_spp == Accessor("spp", spp(snap[1]))

call_mpp == Accessor("mpp", mpp(snap[1]))

call_xie == Accessor("xie", Str(xie(snap[1])))

call_set_xpie ==
    \E val \in BOOLEAN :
        Setter("Mstatus::set_xpie", Str(val), Mstatus_set_xpie(snap[1], val))

call_set_xie ==
    \E val \in BOOLEAN :
        Setter("Mstatus::set_xie", Str(val), Mstatus_set_xie(snap[1], val))

call_set_mpp ==
    \E val \in MPP :
        Setter("Mstatus::set_mpp", val, Mstatus_set_mpp(snap[1], val))

----------------------------------------------------------------------------
(* specifications *)

NoConc == [w |-> 0, a |-> 0, b |-> 0, pend |-> {}, irq |-> <<>>]

\* a register word the hardware can hold: MPP is a WARL field, never 10
ValidMpp(w) == ~(Bit(w, 11) = 0 /\ Bit(w, 12) = 1)

Fresh ==
    /\ op = "init"
    /\ arg = "none"
    /\ oldReg = reg
    /\ oldSnap = snap
    /\ ret = "ok"
    /\ conc = NoConc

\* the accessors and setters of Mstatus over every raw word
\* (the live register plays no part in SpecField and is left at 0)
InitField ==
    /\ target = "riscv64"
    /\ reg = 0
    /\ snap \in {<<w>> : w \in Words}
    /\ Fresh

NextField ==
    \/ call_uie \/ call_sie \/ call_mie \/ call_upie \/ call_spie
    \/ call_mpie \/ call_spp \/ call_mpp \/ call_xie
    \/ call_set_xpie \/ call_set_xie \/ call_set_mpp

SpecField == InitField /\ [][NextField]_vars

\* the live-register mutators from every register word
InitLive ==
    /\ target = "riscv64"
    /\ reg \in {w \in Words : ValidMpp(w)}
    /\ snap = <<>>
    /\ Fresh

NextLive ==
    \/ set_uie \/ clear_uie \/ set_sie \/ clear_sie
    \/ set_mie \/ clear_mie \/ set_xie \/ clear_xie
    \/ set_upie \/ set_spie \/ set_mpie \/ set_xpie
    \/ set_spp \/ set_mpp

SpecLive == InitLive /\ [][NextLive]_vars

\* every public operation, in any order, on every target.  The start words
\* vary the fields that both the live operations and the Mstatus setters
\* write (MIE, MPIE, MPP) over the fixed pattern Background.
Background == 2^2 + 2^4 + 2^5 + 2^6 + 2^8 + 2^9 + 2^10

MainWords ==
    {Background + m * (2^3) + p * (2^7) + q * (2^11) :
        m \in 0..1, p \in 0..1, q \in {0, 1, 3}}

Init ==
    /\ target \in Targets
    /\ reg \in MainWords
    /\ snap = <<>>
    /\ Fresh

Next ==
    \/ read
    \/ set_uie \/ clear_uie \/ set_sie \/ clear_sie
    \/ set_mie \/ clear_mie \/ set_xie \/ clear_xie
    \/ set_upie \/ set_spie \/ set_mpie \/ set_xpie
    \/ set_spp \/ set_mpp
    \/ call_uie \/ call_sie \/ call_mie \/ call_upie \/ call_spie
    \/ call_mpie \/ call_spp \/ call_mpp \/ call_xie
    \/ call_set_xpie \/ call_set_xie \/ call_set_mpp

Spec == Init /\ [][Next]_vars

----------------------------------------------------------------------------
(* the interleaving scenario: one caller sets flag a, another clears flag   *)
(* b, a reader calls read() once at any point, and an interrupt handler may *)
(* change one further flag in between.  Every step is one CSR instruction.  *)

\* the flags that have a set operation, and those that have a clear operation
SetBits == {0, 1, 3, 4, 5, 7}

ClearBits == {0, 1, 3}

SetOps ==
    {<<"set_uie", 0>>, <<"set_sie", 1>>, <<"set_mie", 3>>, <<"set_xie", 3>>,
     <<"set_upie", 4>>, <<"set_spie", 5>>, <<"set_mpie", 7>>, <<"set_xpie", 7>>}

ClearOps ==
    {<<"clear_uie", 0>>, <<"clear_sie", 1>>, <<"clear_mie", 3>>, <<"clear_xie", 3>>}

InitConc ==
    /\ target = "riscv64"
    /\ reg \in 0 .. (2^LowBits - 1)
    /\ snap = <<>>
    /\ op = "init"
    /\ arg = "none"
    /\ oldReg = reg
    /\ oldSnap = snap
    /\ ret = "ok"
    /\ \E a \in SetBits, b \in ClearBits :
        /\ a # b
        /\ conc = [w |-> reg, a |-> a, b |-> b, pend |-> {"set", "clear"}, irq |-> <<>>]

ConcSet ==
    /\ "set" \in conc.pend
    /\ \E o \in SetOps :
        /\ o[2] = conc.a
        /\ set_csr(o[1], Shl(1, o[2]))
    /\ conc' = [conc EXCEPT !.pend = @ \ {"set"}]

ConcClear ==
    /\ "clear" \in conc.pend
    /\ \E o \in ClearOps :
        /\ o[2] = conc.b
        /\ clear_csr(o[1], Shl(1, o[2]))
    /\ conc' = [conc EXCEPT !.pend = @ \ {"clear"}]

ConcRead ==
    /\ snap = <<>>
    /\ read_body
    /\ UNCHANGED conc

ConcIrq ==
    /\ conc.irq = <<>>
    /\ \/ \E o \in SetOps :
            /\ o[2] \notin {conc.a, conc.b}
            /\ set_csr(o[1], Shl(1, o[2]))
            /\ conc' = [conc EXCEPT !.irq = <<o[2], 1>>]
       \/ \E o \in ClearOps :
            /\ o[2] \notin {conc.a, conc.b}
            /\ clear_csr(o[1], Shl(1, o[2]))
            /\ conc' = [conc EXCEPT !.irq = <<o[2], 0>>]

NextConc == ConcSet \/ ConcClear \/ ConcRead \/ ConcIrq

SpecConc == InitConc /\ [][NextConc]_vars

\* the current-privilege aliases beside the machine-level operations, from
\* the state right after a read() of every low word
InitAlias ==
    /\ target = "riscv64"
    /\ reg \in 0 .. (2^LowBits - 1)
    /\ snap = <<reg>>
    /\ op = "read"
    /\ arg = "none"
    /\ oldReg = reg
    /\ oldSnap = <<>>
    /\ ret = "ok"
    /\ conc = NoConc

NextAlias ==
    \/ call_mie \/ call_xie \/ call_mpie
    \/ call_set_xie \/ call_set_xpie
    \/ set_mie \/ set_xie \/ clear_mie \/ clear_xie
    \/ set_mpie \/ set_xpie

SpecAlias == InitAlias /\ [][NextAlias]_vars

----------------------------------------------------------------------------
(* vocabulary of the properties: the bit layout of the register *)

\* w with bit i replaced by v
WithBit(w, i, v) == w - Bit(w, i) * (2^i) + v * (2^i)

\* accessor name and bit of each flag
FlagLayout ==
    {<<"uie", 0>>, <<"sie", 1>>, <<"mie", 3>>,
     <<"upie", 4>>, <<"spie", 5>>, <<"mpie", 7>>}

\* the variant the layout table gives for the two bits 12 and 11
MppOf(w) ==
    CASE Bit(w, 12) = 0 /\ Bit(w, 11) = 0 -> "User"
      [] Bit(w, 12) = 0 /\ Bit(w, 11) = 1 -> "Supervisor"
      [] Bit(w, 12) = 1 /\ Bit(w, 11) = 1 -> "Machine"
      [] OTHER -> "invalid"

SetNames == {o[1] : o \in SetOps}

ClearNames == {o[1] : o \in ClearOps}

LiveNames == SetNames \cup ClearNames \cup {"set_spp", "set_mpp"}

SetterNames == {"Mstatus::set_xpie", "Mstatus::set_xie", "Mstatus::set_mpp"}

\* the flag accessor of the given name applied to a word
Flag(name, w) ==
    CASE name = "uie" -> uie(w)
      [] name = "sie" -> sie(w)
      [] name = "mie" -> mie(w)
      [] name = "upie" -> upie(w)
      [] name = "spie" -> spie(w)
      [] name = "mpie" -> mpie(w)

----------------------------------------------------------------------------
(* C1 *)

\* the word a reader or the handler's change leaves of x
AfterIrq(x) ==
    IF conc.irq = <<>> THEN x ELSE WithBit(x, conc.irq[1], conc.irq[2])

ConcSeen ==
    {conc.w,
     WithBit(conc.w, conc.a, 1),
     WithBit(conc.w, conc.b, 0),
     WithBit(WithBit(conc.w, conc.a, 1), conc.b, 0)}

\* C1: an atomic set of flag a and an atomic clear of flag b # a, in either
\* order, end with a = 1, b = 0 and every other bit as in the start word
\* (but for the bit the handler changed, which keeps the handler's value);
\* the reader sees only the start word, the start word with a set, with b
\* cleared, or the final word, and with no handler step exactly those.
C1_Interleaving ==
    /\ conc.pend = {} =>
        \A i \in 0 .. (WordBits - 1) :
            Bit(reg, i) =
                IF i = conc.a THEN 1
                ELSE IF i = conc.b THEN 0
                ELSE IF conc.irq # <<>> /\ i = conc.irq[1] THEN conc.irq[2]
                ELSE Bit(conc.w, i)
    /\ conc.irq # <<>> => Bit(reg, conc.irq[1]) = conc.irq[2]
    /\ snap # <<>> => snap[1] \in ConcSeen \cup {AfterIrq(x) : x \in ConcSeen}
    /\ (snap # <<>> /\ conc.irq = <<>>) => snap[1] \in ConcSeen

\* both steps done, the handler ran in between, and the reader saw the
\* intermediate word with only a set
C1_Witness ==
    /\ conc.pend = {}
    /\ conc.irq # <<>>
    /\ snap # <<>>
    /\ snap[1] = WithBit(conc.w, conc.a, 1)
    /\ snap[1] # conc.w
    /\ Bit(conc.w, conc.b) = 1
    /\ Bit(reg, conc.irq[1]) # Bit(conc.w, conc.irq[1])

----------------------------------------------------------------------------
(* C2 *)

\* C2: after the live set_mpp(v) the register's MPP field decodes to v, and
\* after the live set_spp(s) its SPP field decodes to s.
C2_SetsVariant ==
    /\ (op = "set_mpp" /\ ret = "ok") => mpp(reg) = arg
    /\ (op = "set_spp" /\ ret = "ok") => spp(reg) = arg

----------------------------------------------------------------------------
(* C3 *)

\* C3: each flag accessor returns true exactly when its layout bit of the
\* word is 1 (uie 0, sie 1, mie 3, upie 4, spie 5, mpie 7).
C3_FlagDecode ==
    \A f \in FlagLayout :
        op = f[1] => ret = Str(Bit(snap[1], f[2]) = 1)

C3_Witness ==
    /\ op = "mpie"
    /\ ret = "true"
    /\ Bit(snap[1], 6) = 0
    /\ Bit(snap[1], 3) = 0
    /\ Bit(snap[1], 8) = 1

----------------------------------------------------------------------------
(* C4 *)

\* C4: mpp() decodes bits 11-12 as 00 User, 01 Supervisor, 11 Machine and
\* panics on 10; spp() decodes bit 8 as 0 User, 1 Supervisor.
C4_EnumDecode ==
    /\ op = "mpp" =>
        ret = IF MppOf(snap[1]) = "invalid" THEN "unreachable" ELSE MppOf(snap[1])
    /\ op = "spp" =>
        ret = IF Bit(snap[1], 8) = 1 THEN "Supervisor" ELSE "User"

C4_Witness ==
    /\ op = "mpp"
    /\ ret = "unreachable"
    /\ Bit(snap[1], 12) = 1
    /\ Bit(snap[1], 11) = 0

----------------------------------------------------------------------------
(* C5 *)

\* C5: a live set operation leaves the register at w OR mask, a live clear
\* operation at w AND NOT mask, and clear_mie right after a set_mie that
\* found bit 3 at 0 returns the register to the word before the set_mie.
C5_Frame ==
    [][ /\ \A o \in SetOps : op' = o[1] => reg' = WithBit(reg, o[2], 1)
        /\ \A o \in ClearOps : op' = o[1] => reg' = WithBit(reg, o[2], 0)
        /\ (op = "set_mie" /\ Bit(oldReg, 3) = 0 /\ op' = "clear_mie")
              => reg' = oldReg ]_vars

C5_Witness ==
    /\ op = "clear_mie"
    /\ Bit(oldReg, 3) = 1
    /\ reg = oldReg - 2^3
    /\ reg # 0

----------------------------------------------------------------------------
(* C6 *)

\* C6 as stated: every flag of the layout decodes true after its set
\* operation and false after its clear operation, and a flag that is set
\* has a clear operation to apply.
C6_EveryFlag ==
    \A f \in FlagLayout :
        /\ \A o \in SetOps : (o[2] = f[2] /\ op = o[1]) => Flag(f[1], reg)
        /\ \A o \in ClearOps : (o[2] = f[2] /\ op = o[1]) => ~Flag(f[1], reg)
        /\ Flag(f[1], reg) => ENABLED (NextLive /\ ~Flag(f[1], reg'))

\* C6 (amended): every flag decodes true after its live set operation, and
\* uie, sie and mie decode false after their live clear operation; upie,
\* spie and mpie have no live clear operation: once set, no live operation
\* makes them decode false.
C6_RoundTrip ==
    \A f \in FlagLayout :
        /\ \A o \in SetOps : (o[2] = f[2] /\ op = o[1]) => Flag(f[1], reg)
        /\ \A o \in ClearOps : (o[2] = f[2] /\ op = o[1]) => ~Flag(f[1], reg)
        /\ (f[1] \in {"upie", "spie", "mpie"} /\ Flag(f[1], oldReg))
              => Flag(f[1], reg)

C6_Witness ==
    /\ op = "set_sie"
    /\ Bit(oldReg, 1) = 0
    /\ Bit(oldReg, 0) = 0
    /\ sie(reg)

----------------------------------------------------------------------------
(* C7 *)

\* C7: bits 11-12 of the live register and of the Mstatus value held are
\* never 10, and mpp() never reaches its unreachable branch.
C7_NoReservedMpp ==
    /\ MppOf(reg) # "invalid"
    /\ snap # <<>> => MppOf(snap[1]) # "invalid"
    /\ ret # "unreachable"

C7_Witness ==
    /\ op = "Mstatus::set_mpp"
    /\ arg = "Supervisor"
    /\ MppOf(oldSnap[1]) = "Machine"
    /\ MppOf(snap[1]) = "Supervisor"
    /\ MppOf(reg) = "Machine"

----------------------------------------------------------------------------
(* C8 *)

\* C8 as stated: once read() has returned an Mstatus value, no later
\* operation changes the word it holds.
C8_NeverMutated ==
    (oldSnap # <<>> /\ op # "read") => snap = oldSnap

\* C8 (amended): the word an Mstatus value holds is changed by no live
\* operation and by no accessor; only its own setters overwrite it.
C8_OnlySettersMutate ==
    (oldSnap # <<>> /\ op \notin SetterNames \cup {"read"}) => snap = oldSnap

C8_Witness ==
    /\ op = "set_mpie"
    /\ oldSnap # <<>>
    /\ reg # oldReg
    /\ snap = oldSnap
    /\ Bit(snap[1], 7) = 0

----------------------------------------------------------------------------
(* C9 *)

\* C9: xie() is mie(); the live set_xie, clear_xie and set_xpie act as
\* set_mie, clear_mie and set_mpie; Mstatus::set_xie(b) and
\* Mstatus::set_xpie(b) change exactly bit 3 and bit 7, after which mie()
\* and mpie() are b.
C9_Alias ==
    /\ op = "xie" =>
        /\ ret = Str(mie(snap[1]))
        /\ ret = Str(Bit(snap[1], 3) = 1)
    /\ op \in {"set_xie", "set_mie"} => reg = WithBit(oldReg, 3, 1)
    /\ op \in {"clear_xie", "clear_mie"} => reg = WithBit(oldReg, 3, 0)
    /\ op \in {"set_xpie", "set_mpie"} => reg = WithBit(oldReg, 7, 1)
    /\ op = "Mstatus::set_xie" =>
        /\ snap[1] = WithBit(oldSnap[1], 3, IF arg = "true" THEN 1 ELSE 0)
        /\ mie(snap[1]) = (arg = "true")
    /\ op = "Mstatus::set_xpie" =>
        /\ snap[1] = WithBit(oldSnap[1], 7, IF arg = "true" THEN 1 ELSE 0)
        /\ mpie(snap[1]) = (arg = "true")

C9_Witness ==
    /\ op = "Mstatus::set_xie"
    /\ arg = "false"
    /\ Bit(oldSnap[1], 3) = 1
    /\ Bit(snap[1], 1) = 1
    /\ Bit(reg, 3) = 1

----------------------------------------------------------------------------
(* C10 *)

\* C10: on a target that is neither riscv32 nor riscv64, read and every
\* live set/clear operation panic, no Mstatus value is ever returned and
\* the register is left as it was.
C10_Unsupported ==
    target \notin {"riscv32", "riscv64"} =>
        /\ op \in LiveNames \cup {"read"} => ret = "unimplemented"
        /\ snap = <<>>
        /\ reg = oldReg

C10_Witness ==
    /\ target = "x86_64"
    /\ op = "read"
    /\ ret = "unimplemented"

====
